---- MODULE Spec2Model ----
(***************************************************************************)
(* Inventory REST API over PostgreSQL, in its two server variants:         *)
(*   "strict" : src/unnamed/part_000       (routes keyed by id_produk,     *)
(*              POST /api/stock is a plain INSERT)                         *)
(*   "upsert" : src/inventory_backend.js   (routes keyed by the serial id, *)
(*              POST /api/stock looks up, then updates or inserts)         *)
(* The database is one variable; every SQL statement is one atomic step    *)
(* (autocommit, no explicit transaction in either file).  A handler with   *)
(* several statements is several steps, and other requests may run between *)
(* them.                                                                   *)
(***************************************************************************)
EXTENDS Integers, Sequences, FiniteSets, TLC

VARIABLES variant, db, req, prev, nreq

vars == <<variant, db, req, prev, nreq>>

-----------------------------------------------------------------------------
(* Bounds of the model *)

MaxSerial == 2
MaxEmployees == 1
MaxQty == 3
MaxInFlight == 2
MaxRequests == 4

(* Input domains.  NULL stands for a missing JSON field (undefined, sent   *)
(* to the database as NULL); NullInt is the same for a numeric field.      *)
NULL == "NULL"
NullInt == 0 - 1
Keys == {"P1", "P2"}
Names == {"A", "B"}
Qtys == {1, 2}
EmpNames == {"E"}
Posisi == {"X"}
Ids == 1 .. MaxSerial
EmpIds == 1 .. MaxEmployees
Slots == 1 .. MaxInFlight

OptKeys == Keys \cup {NULL}
OptNames == Names \cup {NULL}
OptKats == {NULL}
OptEmpNames == EmpNames \cup {NULL}
OptQtys == Qtys \cup {NullInt}
OptPosisi == Posisi \cup {NULL}

-----------------------------------------------------------------------------
(* The schema and the SQL statements, as PostgreSQL executes them.         *)
(* A statement's result is [code, db, rows]: the SQLSTATE ("00000" is      *)
(* success), the database after it, and the rows it returns or affects     *)
(* (rowCount is their number).                                             *)

OK == "00000"
NotNullViolation == "23502"
ForeignKeyViolation == "23503"
UniqueViolation == "23505"
ConnectionFailure == "08006"

\* WHERE id = $n and WHERE id_produk = $n (a comparison with NULL selects nothing)
ById(rows, id) == {r \in rows : r.id = id}
ByKey(rows, k) == {r \in rows : k # NULL /\ r.id_produk = k}

Result(code, d, rows) == [code |-> code, db |-> d, rows |-> rows]

\* Mutant of RowCount: the handler never sees an empty result.
RowCountAlwaysOne(res) == 1

\* result.rowCount
RowCount(res) == Cardinality(res.rows)

\* The statement never reached the database, or the database failed it for a
\* reason other than a constraint: nothing changes.
Failed(d) == Result(ConnectionFailure, d, {})

EmptyDb ==
  [products |-> {}, stock |-> {}, employees |-> {}, seqP |-> 1, seqS |-> 1, seqE |-> 1]

\* Mutant of InsertProduct: id_produk without its UNIQUE constraint.
InsertProductNoUnique(d, k, n, c) ==
  LET row == [id |-> d.seqP, id_produk |-> k, nama_produk |-> n, kategori_produk |-> c]
      d1 == [d EXCEPT !.seqP = @ + 1]
  IN  IF k = NULL \/ n = NULL THEN Result(NotNullViolation, d1, {})
      ELSE Result(OK, [d1 EXCEPT !.products = @ \cup {row}], {row})

\* INSERT INTO products (id_produk, nama_produk, kategori_produk) ... RETURNING *
\* id SERIAL: nextval is taken before the constraints are checked, so a failed
\* insert consumes an id too.  NOT NULL is checked before the unique index.
InsertProduct(d, k, n, c) ==
  LET row == [id |-> d.seqP, id_produk |-> k, nama_produk |-> n, kategori_produk |-> c]
      d1 == [d EXCEPT !.seqP = @ + 1]
  IN  IF k = NULL \/ n = NULL THEN Result(NotNullViolation, d1, {})
      ELSE IF \E p \in d.products : p.id_produk = k THEN Result(UniqueViolation, d1, {})
      ELSE Result(OK, [d1 EXCEPT !.products = @ \cup {row}], {row})

\* UPDATE products SET nama_produk = $1, kategori_produk = $2 WHERE ... RETURNING *
\* hit: the rows of products the WHERE clause selects.
UpdateProduct(d, hit, n, c) ==
  LET new == {[p EXCEPT !.nama_produk = n, !.kategori_produk = c] : p \in hit}
  IN  IF hit # {} /\ n = NULL THEN Result(NotNullViolation, d, {})
      ELSE Result(OK, [d EXCEPT !.products = (@ \ hit) \cup new], new)

\* Mutant of DeleteProduct: the foreign key without ON DELETE CASCADE and
\* without a check.
DeleteProductNoCascade(d, hit) ==
  Result(OK, [d EXCEPT !.products = @ \ hit], hit)

\* DELETE FROM products WHERE ... [RETURNING *]
\* stock.id_produk REFERENCES products(id_produk) ON DELETE CASCADE
DeleteProduct(d, hit) ==
  LET gone == {s \in d.stock : \E p \in hit : s.id_produk = p.id_produk}
  IN  Result(OK, [d EXCEPT !.products = @ \ hit, !.stock = @ \ gone], hit)

\* Mutant of InsertStock: id_produk without REFERENCES products(id_produk).
InsertStockNoForeignKey(d, k, n, q) ==
  LET row == [id |-> d.seqS, id_produk |-> k, nama_produk |-> n, jumlah_stok |-> q]
      d1 == [d EXCEPT !.seqS = @ + 1]
  IN  IF n = NULL THEN Result(NotNullViolation, d1, {})
      ELSE IF k # NULL /\ \E s \in d.stock : s.id_produk = k
           THEN Result(UniqueViolation, d1, {})
      ELSE Result(OK, [d1 EXCEPT !.stock = @ \cup {row}], {row})

\* INSERT INTO stock (id_produk, nama_produk, jumlah_stok) ... RETURNING *
\* id_produk VARCHAR(50) UNIQUE REFERENCES products(id_produk): nullable, and a
\* NULL key passes both the unique index and the foreign key (MATCH SIMPLE).
\* Order of the checks: NOT NULL, unique index, foreign key (an AFTER trigger).
InsertStock(d, k, n, q) ==
  LET row == [id |-> d.seqS, id_produk |-> k, nama_produk |-> n, jumlah_stok |-> q]
      d1 == [d EXCEPT !.seqS = @ + 1]
  IN  IF n = NULL THEN Result(NotNullViolation, d1, {})
      ELSE IF k # NULL /\ \E s \in d.stock : s.id_produk = k
           THEN Result(UniqueViolation, d1, {})
      ELSE IF k # NULL /\ ~ \E p \in d.products : p.id_produk = k
           THEN Result(ForeignKeyViolation, d1, {})
      ELSE Result(OK, [d1 EXCEPT !.stock = @ \cup {row}], {row})

\* UPDATE stock SET jumlah_stok = $1 WHERE ... RETURNING *
UpdateStockQty(d, hit, q) ==
  LET new == {[s EXCEPT !.jumlah_stok = q] : s \in hit}
  IN  Result(OK, [d EXCEPT !.stock = (@ \ hit) \cup new], new)

\* UPDATE stock SET nama_produk = $1
\*   WHERE id_produk = (SELECT id_produk FROM products WHERE id = $2)
UpdateStockName(d, n, id) ==
  LET hit == {s \in d.stock : \E p \in d.products : p.id = id /\ s.id_produk = p.id_produk}
      new == {[s EXCEPT !.nama_produk = n] : s \in hit}
  IN  IF hit # {} /\ n = NULL THEN Result(NotNullViolation, d, {})
      ELSE Result(OK, [d EXCEPT !.stock = (@ \ hit) \cup new], new)

\* DELETE FROM stock WHERE ... [RETURNING *]
DeleteStock(d, hit) ==
  Result(OK, [d EXCEPT !.stock = @ \ hit], hit)

\* INSERT INTO employees (nama, posisi, email) ... RETURNING *
InsertEmployee(d, n, p, e) ==
  LET row == [id |-> d.seqE, nama |-> n, posisi |-> p, email |-> e]
      d1 == [d EXCEPT !.seqE = @ + 1]
  IN  IF n = NULL THEN Result(NotNullViolation, d1, {})
      ELSE Result(OK, [d1 EXCEPT !.employees = @ \cup {row}], {row})

\* UPDATE employees SET nama = $1, posisi = $2, email = $3 WHERE id = $4 RETURNING *
UpdateEmployee(d, id, n, p, e) ==
  LET hit == {x \in d.employees : x.id = id}
      new == {[x EXCEPT !.nama = n, !.posisi = p, !.email = e] : x \in hit}
  IN  IF hit # {} /\ n = NULL THEN Result(NotNullViolation, d, {})
      ELSE Result(OK, [d EXCEPT !.employees = (@ \ hit) \cup new], new)

\* DELETE FROM employees WHERE id = $1 [RETURNING *]
DeleteEmployee(d, id) ==
  LET hit == {x \in d.employees : x.id = id}
  IN  Result(OK, [d EXCEPT !.employees = @ \ hit], hit)


\* SELECT COUNT(*) FROM <table>, read with parseInt
Count(rows) == Cardinality(rows)

\* SELECT COALESCE(SUM(jumlah_stok), 0) FROM stock: SUM skips NULLs
RECURSIVE SumStock(_)
SumStock(rows) ==
  IF rows = {} THEN 0
  ELSE LET s == CHOOSE x \in rows : TRUE
       IN  (IF s.jumlah_stok = NullInt THEN 0 ELSE s.jumlah_stok) + SumStock(rows \ {s})

\* SELECT s.id, s.id_produk, s.nama_produk, s.jumlah_stok, p.kategori_produk
\*   FROM stock s LEFT JOIN products p ON s.id_produk = p.id_produk   (part_000)
\* The name is the copy stored in the stock row.
StockJoinStrict(d) ==
  { [id |-> s.id, id_produk |-> s.id_produk, nama_produk |-> s.nama_produk,
     jumlah_stok |-> s.jumlah_stok,
     kategori_produk |-> IF ByKey(d.products, s.id_produk) = {} THEN NULL
                         ELSE (CHOOSE p \in ByKey(d.products, s.id_produk) : TRUE).kategori_produk]
    : s \in d.stock }

\* SELECT s.id, s.id_produk, p.nama_produk, s.jumlah_stok
\*   FROM stock s LEFT JOIN products p ON s.id_produk = p.id_produk
\*   ORDER BY s.id DESC                                      (inventory_backend.js)
\* The name is the product's.
StockJoinUpsert(d) ==
  { [id |-> s.id, id_produk |-> s.id_produk,
     nama_produk |-> IF ByKey(d.products, s.id_produk) = {} THEN NULL
                     ELSE (CHOOSE p \in ByKey(d.products, s.id_produk) : TRUE).nama_produk,
     jumlah_stok |-> s.jumlah_stok]
    : s \in d.stock }

\* ORDER BY id DESC
RECURSIVE OrderByIdDesc(_)
OrderByIdDesc(rows) ==
  IF rows = {} THEN <<>>
  ELSE LET top == CHOOSE x \in rows : \A y \in rows : y.id <= x.id
       IN  <<top>> \o OrderByIdDesc(rows \ {top})

\* A SELECT without ORDER BY returns the rows in an order the server chooses.
AnyOrder(rows) ==
  { s \in [1 .. Cardinality(rows) -> rows] : \A i, j \in DOMAIN s : s[i] = s[j] => i = j }

\* result.rows of a statement that returns at most one row
Rows(rows) == IF rows = {} THEN <<>> ELSE <<CHOOSE x \in rows : TRUE>>

-----------------------------------------------------------------------------
(* Requests.  A request in flight is a record: what was asked (op, the     *)
(* path parameter id or key, the JSON body), where its handler stands (pc, *)
(* its local variables loc) and what it has done (nsql statements issued,  *)
(* nresp responses sent, status and response body out).  Two fields are    *)
(* history kept for the properties: alone (no other request ran a step     *)
(* between this request's arrival and now) and deleted, cascaded (the rows  *)
(* of products a DELETE removed, and the rows of stock that went with     *)
(* them).  prev is the last answered request.                              *)

Idle == [op |-> "idle"]

Body0 ==
  [id_produk |-> NULL, nama_produk |-> NULL, kategori_produk |-> NULL,
   jumlah_stok |-> NullInt, nama |-> NULL, posisi |-> NULL, email |-> NULL]

Loc0 == [nama_produk |-> NULL, existing |-> {}, result |-> {}, c1 |-> 0, c2 |-> 0]

Busy(s) == req[s] # Idle

NewReq(op, id, key, body) ==
  [op |-> op, pc |-> "start", id |-> id, key |-> key, body |-> body, loc |-> Loc0,
   status |-> 0, out |-> <<>>, nsql |-> 0, nresp |-> 0, deleted |-> {},
   cascaded |-> {}, alone |-> \A s \in Slots : ~ Busy(s)]

\* pool.query(...): the statement is issued; f says whether it fails for a
\* reason outside the schema (the connection, the pool, the server).
Exec(f, d, res) == IF f THEN Failed(d) ELSE res
Sent(r) == [r EXCEPT !.nsql = @ + 1]

\* res.status(s).json(body) / .send(text): one response
Respond(r, status, out) ==
  [r EXCEPT !.status = status, !.out = out, !.nresp = @ + 1, !.pc = "done"]

\* Mutant of HandleQueryError: the error is logged and no response is sent.
HandleQueryErrorSilent(r) == r

\* part_000 lines 58-61
HandleQueryError(r) == Respond(r, 500, <<>>)

\* A step of one request is seen by every other request in flight.
Disturbed(rs, me) ==
  [s \in Slots |-> IF s = me \/ rs[s] = Idle THEN rs[s] ELSE [rs[s] EXCEPT !.alone = FALSE]]

FreeSlot == CHOOSE s \in Slots : ~ Busy(s) /\ \A t \in Slots : t < s => Busy(t)

\* The answered request, as the properties remember it.
Answered(r) ==
  [op |-> r.op, status |-> r.status, out |-> r.out, nsql |-> r.nsql, nresp |-> r.nresp,
   alone |-> r.alone, deleted |-> r.deleted, cascaded |-> r.cascaded]

\* A handler that answers in the step in which it arrived (one statement, or none).
\* nreq counts the requests that have arrived.
Finish(r) ==
  /\ nreq < MaxRequests
  /\ nreq' = nreq + 1
  /\ prev' = Answered(r)
  /\ req' = Disturbed(req, 0)

\* A handler that goes on from slot s (or arrives there): it stays in flight, or
\* answers.
Continue(s, r) ==
  /\ IF req[s] = Idle THEN nreq < MaxRequests /\ nreq' = nreq + 1 ELSE nreq' = nreq
  /\ prev' = IF r.pc = "done" THEN Answered(r) ELSE prev
  /\ req' = [Disturbed(req, s) EXCEPT ![s] = IF r.pc = "done" THEN Idle ELSE r]

-----------------------------------------------------------------------------
(* The "strict" variant: src/unnamed/part_000 *)

\* GET /api/dashboard: three statements, then the summary
S_GetDashboard_1Req(f) ==
  /\ variant = "strict"
  /\ \E s \in Slots : ~ Busy(s)
  /\ LET r0 == Sent(NewReq("GET /api/dashboard", NullInt, NULL, Body0))
         r1 == IF f THEN HandleQueryError(r0)
               ELSE [r0 EXCEPT !.pc = "stockSum", !.loc.c1 = Count(db.products)]
     IN  Continue(FreeSlot, r1)
  /\ UNCHANGED <<variant, db>>

S_GetDashboard_1 ==
  \E f \in BOOLEAN : S_GetDashboard_1Req(f)

S_GetDashboard_2Req(s, f) ==
  /\ Busy(s)
  /\ req[s].op = "GET /api/dashboard"
  /\ req[s].pc = "stockSum"
  /\ LET r0 == Sent(req[s])
         r1 == IF f THEN HandleQueryError(r0)
               ELSE [r0 EXCEPT !.pc = "employeeCount", !.loc.c2 = SumStock(db.stock)]
     IN  Continue(s, r1)
  /\ UNCHANGED <<variant, db>>

S_GetDashboard_2 == \E s \in Slots, f \in BOOLEAN : S_GetDashboard_2Req(s, f)

S_GetDashboard_3Req(s, f) ==
  /\ Busy(s)
  /\ req[s].op = "GET /api/dashboard"
  /\ req[s].pc = "employeeCount"
  /\ LET r0 == Sent(req[s])
         r1 == IF f THEN HandleQueryError(r0)
               ELSE Respond(r0, 200,
                      << [total_produk |-> r0.loc.c1, total_stok_unit |-> r0.loc.c2,
                          total_karyawan |-> Count(db.employees)] >>)
     IN  Continue(s, r1)
  /\ UNCHANGED <<variant, db>>

S_GetDashboard_3 == \E s \in Slots, f \in BOOLEAN : S_GetDashboard_3Req(s, f)

\* GET /api/products (no search parameter)
S_GetProductsReq(f, rows) ==
  /\ variant = "strict"
  /\ rows \in AnyOrder(db.products)
  /\ LET r0 == Sent(NewReq("GET /api/products", NullInt, NULL, Body0))
     IN  Finish(IF f THEN HandleQueryError(r0) ELSE Respond(r0, 200, rows))
  /\ UNCHANGED <<variant, db>>

S_GetProducts ==
  \E f \in BOOLEAN : \E rows \in AnyOrder(db.products) : S_GetProductsReq(f, rows)

\* POST /api/products: no check of the body before the INSERT
S_PostProductsReq(k, n, c, f) ==
  /\ variant = "strict"
  /\ db.seqP <= MaxSerial
  /\ LET body == [Body0 EXCEPT !.id_produk = k, !.nama_produk = n, !.kategori_produk = c]
         r0 == Sent(NewReq("POST /api/products", NullInt, NULL, body))
         res == Exec(f, db, InsertProduct(db, k, n, c))
     IN  /\ db' = res.db
         /\ Finish(IF res.code = OK THEN Respond(r0, 201, Rows(res.rows))
                   ELSE IF res.code = UniqueViolation THEN Respond(r0, 409, <<>>)
                   ELSE HandleQueryError(r0))
  /\ UNCHANGED variant

S_PostProducts ==
  \E k \in OptKeys, n \in OptNames, c \in OptKats, f \in BOOLEAN : S_PostProductsReq(k, n, c, f)

\* PUT /api/products/:id_produk
S_PutProductsReq(key, n, c, f) ==
  /\ variant = "strict"
  /\ LET body == [Body0 EXCEPT !.nama_produk = n, !.kategori_produk = c]
         r0 == Sent(NewReq("PUT /api/products", NullInt, key, body))
         res == Exec(f, db, UpdateProduct(db, ByKey(db.products, key), n, c))
     IN  /\ db' = res.db
         /\ Finish(IF res.code # OK THEN HandleQueryError(r0)
                   ELSE IF RowCount(res) = 0 THEN Respond(r0, 404, <<>>)
                   ELSE Respond(r0, 200, Rows(res.rows)))
  /\ UNCHANGED variant

S_PutProducts ==
  \E key \in Keys, n \in OptNames, c \in OptKats, f \in BOOLEAN : S_PutProductsReq(key, n, c, f)

\* DELETE /api/products/:id_produk
S_DeleteProductsReq(key, f) ==
  /\ variant = "strict"
  /\ LET r0 == Sent(NewReq("DELETE /api/products", NullInt, key, Body0))
         res == Exec(f, db, DeleteProduct(db, ByKey(db.products, key)))
     IN  /\ db' = res.db
         /\ Finish(IF res.code # OK THEN HandleQueryError(r0)
                   ELSE IF RowCount(res) = 0 THEN Respond(r0, 404, <<>>)
                   ELSE Respond([r0 EXCEPT !.deleted = res.rows, !.cascaded = db.stock \ res.db.stock], 200, Rows(res.rows)))
  /\ UNCHANGED variant

S_DeleteProducts ==
  \E key \in Keys, f \in BOOLEAN : S_DeleteProductsReq(key, f)

\* GET /api/stock (no search parameter)
S_GetStockReq(f, rows) ==
  /\ variant = "strict"
  /\ rows \in AnyOrder(StockJoinStrict(db))
  /\ LET r0 == Sent(NewReq("GET /api/stock", NullInt, NULL, Body0))
     IN  Finish(IF f THEN HandleQueryError(r0) ELSE Respond(r0, 200, rows))
  /\ UNCHANGED <<variant, db>>

S_GetStock ==
  \E f \in BOOLEAN : \E rows \in AnyOrder(StockJoinStrict(db)) : S_GetStockReq(f, rows)

\* POST /api/stock: a plain INSERT, the constraints decide
S_PostStockReq(k, n, q, f) ==
  /\ variant = "strict"
  /\ db.seqS <= MaxSerial
  /\ LET body == [Body0 EXCEPT !.id_produk = k, !.nama_produk = n, !.jumlah_stok = q]
         r0 == Sent(NewReq("POST /api/stock", NullInt, NULL, body))
         res == Exec(f, db, InsertStock(db, k, n, q))
     IN  /\ db' = res.db
         /\ Finish(IF res.code = OK THEN Respond(r0, 201, Rows(res.rows))
                   ELSE IF res.code = ForeignKeyViolation THEN Respond(r0, 400, <<>>)
                   ELSE IF res.code = UniqueViolation THEN Respond(r0, 409, <<>>)
                   ELSE HandleQueryError(r0))
  /\ UNCHANGED variant

S_PostStock ==
  \E k \in OptKeys, n \in OptNames, q \in OptQtys, f \in BOOLEAN : S_PostStockReq(k, n, q, f)

\* PUT /api/stock/:id_produk
S_PutStockReq(key, q, f) ==
  /\ variant = "strict"
  /\ LET body == [Body0 EXCEPT !.jumlah_stok = q]
         r0 == Sent(NewReq("PUT /api/stock", NullInt, key, body))
         res == Exec(f, db, UpdateStockQty(db, ByKey(db.stock, key), q))
     IN  /\ db' = res.db
         /\ Finish(IF res.code # OK THEN HandleQueryError(r0)
                   ELSE IF RowCount(res) = 0 THEN Respond(r0, 404, <<>>)
                   ELSE Respond(r0, 200, Rows(res.rows)))
  /\ UNCHANGED variant

S_PutStock ==
  \E key \in Keys, q \in OptQtys, f \in BOOLEAN : S_PutStockReq(key, q, f)

\* DELETE /api/stock/:id_produk
S_DeleteStockReq(key, f) ==
  /\ variant = "strict"
  /\ LET r0 == Sent(NewReq("DELETE /api/stock", NullInt, key, Body0))
         res == Exec(f, db, DeleteStock(db, ByKey(db.stock, key)))
     IN  /\ db' = res.db
         /\ Finish(IF res.code # OK THEN HandleQueryError(r0)
                   ELSE IF RowCount(res) = 0 THEN Respond(r0, 404, <<>>)
                   ELSE Respond(r0, 200, Rows(res.rows)))
  /\ UNCHANGED variant

S_DeleteStock ==
  \E key \in Keys, f \in BOOLEAN : S_DeleteStockReq(key, f)

\* GET /api/employees (no search parameter)
S_GetEmployeesReq(f, rows) ==
  /\ variant = "strict"
  /\ rows \in AnyOrder(db.employees)
  /\ LET r0 == Sent(NewReq("GET /api/employees", NullInt, NULL, Body0))
     IN  Finish(IF f THEN HandleQueryError(r0) ELSE Respond(r0, 200, rows))
  /\ UNCHANGED <<variant, db>>

S_GetEmployees ==
  \E f \in BOOLEAN : \E rows \in AnyOrder(db.employees) : S_GetEmployeesReq(f, rows)

\* POST /api/employees: no check of the body before the INSERT
S_PostEmployeesReq(n, p, f) ==
  /\ variant = "strict"
  /\ db.seqE <= MaxEmployees
  /\ LET body == [Body0 EXCEPT !.nama = n, !.posisi = p]
         r0 == Sent(NewReq("POST /api/employees", NullInt, NULL, body))
         res == Exec(f, db, InsertEmployee(db, n, p, NULL))
     IN  /\ db' = res.db
         /\ Finish(IF res.code = OK THEN Respond(r0, 201, Rows(res.rows))
                   ELSE HandleQueryError(r0))
  /\ UNCHANGED variant

S_PostEmployees ==
  \E n \in OptEmpNames, p \in OptPosisi, f \in BOOLEAN : S_PostEmployeesReq(n, p, f)

\* PUT /api/employees/:id
S_PutEmployeesReq(id, n, p, f) ==
  /\ variant = "strict"
  /\ LET body == [Body0 EXCEPT !.nama = n, !.posisi = p]
         r0 == Sent(NewReq("PUT /api/employees", id, NULL, body))
         res == Exec(f, db, UpdateEmployee(db, id, n, p, NULL))
     IN  /\ db' = res.db
         /\ Finish(IF res.code # OK THEN HandleQueryError(r0)
                   ELSE IF RowCount(res) = 0 THEN Respond(r0, 404, <<>>)
                   ELSE Respond(r0, 200, Rows(res.rows)))
  /\ UNCHANGED variant

S_PutEmployees ==
  \E id \in EmpIds, n \in OptEmpNames, p \in OptPosisi, f \in BOOLEAN : S_PutEmployeesReq(id, n, p, f)

\* DELETE /api/employees/:id
S_DeleteEmployeesReq(id, f) ==
  /\ variant = "strict"
  /\ LET r0 == Sent(NewReq("DELETE /api/employees", id, NULL, Body0))
         res == Exec(f, db, DeleteEmployee(db, id))
     IN  /\ db' = res.db
         /\ Finish(IF res.code # OK THEN HandleQueryError(r0)
                   ELSE IF RowCount(res) = 0 THEN Respond(r0, 404, <<>>)
                   ELSE Respond(r0, 200, Rows(res.rows)))
  /\ UNCHANGED variant

S_DeleteEmployees ==
  \E id \in EmpIds, f \in BOOLEAN : S_DeleteEmployeesReq(id, f)

-----------------------------------------------------------------------------
(* The "upsert" variant: src/inventory_backend.js *)

\* Mutant of JsAdd: the new quantity replaces the stored one.
JsAddReplaces(a, b) == b

\* JavaScript's a + b for a column value a (null counts as 0) and a number b
JsAdd(a, b) == IF a = NullInt THEN b ELSE a + b

\* The quantity stored for key k, 0 when there is none
CurQty(d, k) ==
  IF ByKey(d.stock, k) = {} THEN 0
  ELSE LET cur == (CHOOSE s \in ByKey(d.stock, k) : TRUE).jumlah_stok
       IN  IF cur = NullInt THEN 0 ELSE cur

\* GET /api/products
U_GetProductsReq(f) ==
  /\ variant = "upsert"
  /\ LET r0 == Sent(NewReq("GET /api/products", NullInt, NULL, Body0))
     IN  Finish(IF f THEN Respond(r0, 500, <<>>)
                ELSE Respond(r0, 200, OrderByIdDesc(db.products)))
  /\ UNCHANGED <<variant, db>>

U_GetProducts ==
  \E f \in BOOLEAN : U_GetProductsReq(f)

\* POST /api/products
U_PostProductsReq(k, n, c, f) ==
  /\ variant = "upsert"
  /\ db.seqP <= MaxSerial
  /\ LET body == [Body0 EXCEPT !.id_produk = k, !.nama_produk = n, !.kategori_produk = c]
         r0 == NewReq("POST /api/products", NullInt, NULL, body)
         invalid == k = NULL \/ n = NULL
         res == IF invalid THEN Result(OK, db, {}) ELSE Exec(f, db, InsertProduct(db, k, n, c))
     IN  /\ db' = res.db
         /\ Finish(IF invalid THEN Respond(r0, 400, <<>>)
                   ELSE IF res.code = OK THEN Respond(Sent(r0), 201, Rows(res.rows))
                   ELSE Respond(Sent(r0), 500, <<>>))
  /\ UNCHANGED variant

U_PostProducts ==
  \E k \in OptKeys, n \in OptNames, c \in OptKats, f \in BOOLEAN : U_PostProductsReq(k, n, c, f)

\* PUT /api/products/:id, first statement: UPDATE products
U_PutProducts_1Req(id, n, c, f) ==
  /\ variant = "upsert"
  /\ \E s \in Slots : ~ Busy(s)
  /\ LET body == [Body0 EXCEPT !.nama_produk = n, !.kategori_produk = c]
         r0 == Sent(NewReq("PUT /api/products", id, NULL, body))
         res == Exec(f, db, UpdateProduct(db, ById(db.products, id), n, c))
     IN  /\ db' = res.db
         /\ Continue(FreeSlot,
              IF res.code # OK THEN Respond(r0, 500, <<>>)
              ELSE IF RowCount(res) = 0 THEN Respond(r0, 404, <<>>)
              ELSE [r0 EXCEPT !.pc = "updateStock", !.loc.result = res.rows])
  /\ UNCHANGED variant

U_PutProducts_1 ==
  \E id \in Ids, n \in OptNames, c \in OptKats, f \in BOOLEAN : U_PutProducts_1Req(id, n, c, f)

\* PUT /api/products/:id, second statement: UPDATE stock, then the answer
U_PutProducts_2Req(s, f) ==
  /\ Busy(s)
  /\ req[s].op = "PUT /api/products"
  /\ req[s].pc = "updateStock"
  /\ LET r0 == Sent(req[s])
         res == Exec(f, db, UpdateStockName(db, r0.body.nama_produk, r0.id))
     IN  /\ db' = res.db
         /\ Continue(s, IF res.code # OK THEN Respond(r0, 500, <<>>)
                        ELSE Respond(r0, 200, Rows(r0.loc.result)))
  /\ UNCHANGED variant

U_PutProducts_2 == \E s \in Slots, f \in BOOLEAN : U_PutProducts_2Req(s, f)

\* DELETE /api/products/:id
U_DeleteProductsReq(id, f) ==
  /\ variant = "upsert"
  /\ LET r0 == Sent(NewReq("DELETE /api/products", id, NULL, Body0))
         res == Exec(f, db, DeleteProduct(db, ById(db.products, id)))
     IN  /\ db' = res.db
         /\ Finish(IF res.code # OK THEN Respond(r0, 500, <<>>)
                   ELSE IF RowCount(res) = 0 THEN Respond(r0, 404, <<>>)
                   ELSE Respond([r0 EXCEPT !.deleted = res.rows, !.cascaded = db.stock \ res.db.stock], 204, <<>>))
  /\ UNCHANGED variant

U_DeleteProducts ==
  \E id \in Ids, f \in BOOLEAN : U_DeleteProductsReq(id, f)

\* GET /api/stock
U_GetStockReq(f) ==
  /\ variant = "upsert"
  /\ LET r0 == Sent(NewReq("GET /api/stock", NullInt, NULL, Body0))
     IN  Finish(IF f THEN Respond(r0, 500, <<>>)
                ELSE Respond(r0, 200, OrderByIdDesc(StockJoinUpsert(db))))
  /\ UNCHANGED <<variant, db>>

U_GetStock ==
  \E f \in BOOLEAN : U_GetStockReq(f)

\* POST /api/stock, the check of the body and the first statement:
\* SELECT nama_produk FROM products WHERE id_produk = $1
U_PostStock_1Req(k, q, f) ==
  /\ variant = "upsert"
  /\ \E s \in Slots : ~ Busy(s)
  /\ db.seqS <= MaxSerial
  /\ LET body == [Body0 EXCEPT !.id_produk = k, !.jumlah_stok = q]
         r0 == NewReq("POST /api/stock", NullInt, NULL, body)
         invalid == k = NULL \/ q = NullInt
         r1 == Sent(r0)
         found == ByKey(db.products, k)
     IN  /\ ~ invalid => CurQty(db, k) + q <= MaxQty
         /\ Continue(FreeSlot,
              IF invalid THEN Respond(r0, 400, <<>>)
              ELSE IF f THEN Respond(r1, 500, <<>>)
              ELSE IF Cardinality(found) = 0 THEN Respond(r1, 404, <<>>)
              ELSE [r1 EXCEPT !.pc = "existingStock",
                              !.loc.nama_produk = (CHOOSE p \in found : TRUE).nama_produk])
  /\ UNCHANGED <<variant, db>>

U_PostStock_1 ==
  \E k \in OptKeys, q \in OptQtys, f \in BOOLEAN : U_PostStock_1Req(k, q, f)

\* POST /api/stock, second statement:
\* SELECT id, jumlah_stok FROM stock WHERE id_produk = $1
U_PostStock_2Req(s, f) ==
  /\ Busy(s)
  /\ req[s].op = "POST /api/stock"
  /\ req[s].pc = "existingStock"
  /\ LET r0 == Sent(req[s])
     IN  Continue(s, IF f THEN Respond(r0, 500, <<>>)
                     ELSE [r0 EXCEPT !.pc = "write",
                                     !.loc.existing = ByKey(db.stock, r0.body.id_produk)])
  /\ UNCHANGED <<variant, db>>

U_PostStock_2 == \E s \in Slots, f \in BOOLEAN : U_PostStock_2Req(s, f)

\* POST /api/stock, third statement: UPDATE the sum or INSERT, then the answer
U_PostStock_3Req(s, f) ==
  /\ Busy(s)
  /\ req[s].op = "POST /api/stock"
  /\ req[s].pc = "write"
  /\ LET r0 == Sent(req[s])
         k == r0.body.id_produk
         existing == r0.loc.existing
         newStock == JsAdd((CHOOSE e \in existing : TRUE).jumlah_stok, r0.body.jumlah_stok)
         res == Exec(f, db,
                  IF Cardinality(existing) > 0
                  THEN UpdateStockQty(db, ByKey(db.stock, k), newStock)
                  ELSE InsertStock(db, k, r0.loc.nama_produk, r0.body.jumlah_stok))
     IN  /\ db' = res.db
         /\ Continue(s, IF res.code # OK THEN Respond(r0, 500, <<>>)
                        ELSE Respond(r0, 201, Rows(res.rows)))
  /\ UNCHANGED variant

U_PostStock_3 == \E s \in Slots, f \in BOOLEAN : U_PostStock_3Req(s, f)

\* PUT /api/stock/:id
U_PutStockReq(id, q, f) ==
  /\ variant = "upsert"
  /\ LET body == [Body0 EXCEPT !.jumlah_stok = q]
         r0 == Sent(NewReq("PUT /api/stock", id, NULL, body))
         res == Exec(f, db, UpdateStockQty(db, ById(db.stock, id), q))
     IN  /\ db' = res.db
         /\ Finish(IF res.code # OK THEN Respond(r0, 500, <<>>)
                   ELSE IF RowCount(res) = 0 THEN Respond(r0, 404, <<>>)
                   ELSE Respond(r0, 200, Rows(res.rows)))
  /\ UNCHANGED variant

U_PutStock ==
  \E id \in Ids, q \in OptQtys, f \in BOOLEAN : U_PutStockReq(id, q, f)

\* DELETE /api/stock/:id
U_DeleteStockReq(id, f) ==
  /\ variant = "upsert"
  /\ LET r0 == Sent(NewReq("DELETE /api/stock", id, NULL, Body0))
         res == Exec(f, db, DeleteStock(db, ById(db.stock, id)))
     IN  /\ db' = res.db
         /\ Finish(IF res.code # OK THEN Respond(r0, 500, <<>>)
                   ELSE IF RowCount(res) = 0 THEN Respond(r0, 404, <<>>)
                   ELSE Respond(r0, 204, <<>>))
  /\ UNCHANGED variant

U_DeleteStock ==
  \E id \in Ids, f \in BOOLEAN : U_DeleteStockReq(id, f)

\* GET /api/employees
U_GetEmployeesReq(f) ==
  /\ variant = "upsert"
  /\ LET r0 == Sent(NewReq("GET /api/employees", NullInt, NULL, Body0))
     IN  Finish(IF f THEN Respond(r0, 500, <<>>)
                ELSE Respond(r0, 200, OrderByIdDesc(db.employees)))
  /\ UNCHANGED <<variant, db>>

U_GetEmployees ==
  \E f \in BOOLEAN : U_GetEmployeesReq(f)

\* POST /api/employees
U_PostEmployeesReq(n, p, f) ==
  /\ variant = "upsert"
  /\ db.seqE <= MaxEmployees
  /\ LET body == [Body0 EXCEPT !.nama = n, !.posisi = p]
         r0 == NewReq("POST /api/employees", NullInt, NULL, body)
         invalid == n = NULL \/ p = NULL
         res == IF invalid THEN Result(OK, db, {}) ELSE Exec(f, db, InsertEmployee(db, n, p, NULL))
     IN  /\ db' = res.db
         /\ Finish(IF invalid THEN Respond(r0, 400, <<>>)
                   ELSE IF res.code = OK THEN Respond(Sent(r0), 201, Rows(res.rows))
                   ELSE Respond(Sent(r0), 500, <<>>))
  /\ UNCHANGED variant

U_PostEmployees ==
  \E n \in OptEmpNames, p \in OptPosisi, f \in BOOLEAN : U_PostEmployeesReq(n, p, f)

\* PUT /api/employees/:id
U_PutEmployeesReq(id, n, p, f) ==
  /\ variant = "upsert"
  /\ LET body == [Body0 EXCEPT !.nama = n, !.posisi = p]
         r0 == Sent(NewReq("PUT /api/employees", id, NULL, body))
         res == Exec(f, db, UpdateEmployee(db, id, n, p, NULL))
     IN  /\ db' = res.db
         /\ Finish(IF res.code # OK THEN Respond(r0, 500, <<>>)
                   ELSE IF RowCount(res) = 0 THEN Respond(r0, 404, <<>>)
                   ELSE Respond(r0, 200, Rows(res.rows)))
  /\ UNCHANGED variant

U_PutEmployees ==
  \E id \in EmpIds, n \in OptEmpNames, p \in OptPosisi, f \in BOOLEAN : U_PutEmployeesReq(id, n, p, f)

\* DELETE /api/employees/:id
U_DeleteEmployeesReq(id, f) ==
  /\ variant = "upsert"
  /\ LET r0 == Sent(NewReq("DELETE /api/employees", id, NULL, Body0))
         res == Exec(f, db, DeleteEmployee(db, id))
     IN  /\ db' = res.db
         /\ Finish(IF res.code # OK THEN Respond(r0, 500, <<>>)
                   ELSE IF RowCount(res) = 0 THEN Respond(r0, 404, <<>>)
                   ELSE Respond(r0, 204, <<>>))
  /\ UNCHANGED variant

U_DeleteEmployees ==
  \E id \in EmpIds, f \in BOOLEAN : U_DeleteEmployeesReq(id, f)

-----------------------------------------------------------------------------
(* The system *)

Prev0 ==
  [op |-> "none", status |-> 0, out |-> <<>>, nsql |-> 0, nresp |-> 0, alone |-> TRUE,
   deleted |-> {}, cascaded |-> {}]

\* createTables (inventory_backend.js 38-71) has run, or the same schema was
\* provisioned by hand (part_000 6-9): three empty tables.
Init ==
  /\ variant \in {"strict", "upsert"}
  /\ db = EmptyDb
  /\ req = [s \in Slots |-> Idle]
  /\ prev = Prev0
  /\ nreq = 0

Next ==
  \/ S_GetDashboard_1 \/ S_GetDashboard_2 \/ S_GetDashboard_3
  \/ S_GetProducts \/ S_PostProducts \/ S_PutProducts \/ S_DeleteProducts
  \/ S_GetStock \/ S_PostStock \/ S_PutStock \/ S_DeleteStock
  \/ S_GetEmployees \/ S_PostEmployees \/ S_PutEmployees \/ S_DeleteEmployees
  \/ U_GetProducts \/ U_PostProducts \/ U_PutProducts_1 \/ U_PutProducts_2
  \/ U_DeleteProducts
  \/ U_GetStock \/ U_PostStock_1 \/ U_PostStock_2 \/ U_PostStock_3
  \/ U_PutStock \/ U_DeleteStock
  \/ U_GetEmployees \/ U_PostEmployees \/ U_PutEmployees \/ U_DeleteEmployees

Spec == Init /\ [][Next]_vars

-----------------------------------------------------------------------------
(* Properties.  A step "is" a request when it satisfies the request's      *)
(* action for the inputs named; f = FALSE says that the database answered  *)
(* the statement (it may still have refused it for a constraint).          *)

NoneInFlight == \A s \in Slots : ~ Busy(s)

\* The step answers a request that arrived in this very step.
ArrivesAndAnswers(op) ==
  /\ nreq' = nreq + 1
  /\ prev'.op = op
  /\ \A s \in Slots : (req'[s] = Idle) <=> (req[s] = Idle)

\* C1: POST /api/products, either variant, body with id_produk and a name: when
\* no row has the key the answer is 201 and the row is inserted; when a row has
\* it the answer is 409 Conflict and the products table is unchanged.
C1_DuplicateKeyConflict ==
  [][ \A k \in Keys, n \in Names, c \in OptKats :
        (S_PostProductsReq(k, n, c, FALSE) \/ U_PostProductsReq(k, n, c, FALSE))
        => IF ByKey(db.products, k) = {}
           THEN /\ prev'.status = 201
                /\ Len(prev'.out) = 1
                /\ prev'.out[1].id_produk = k
                /\ db'.products = db.products \cup {prev'.out[1]}
           ELSE /\ prev'.status = 409
                /\ db'.products = db.products ]_vars

\* C2: with no other request in flight, after a PUT on a product answered 200,
\* where the product has a stock row, the next GET /api/stock returns that
\* product's stock row with nama_produk equal to the new name.
C2_RenameReachesStockList ==
  [][ ( /\ prev.op = "PUT /api/products"
        /\ prev.status = 200
        /\ prev.alone
        /\ NoneInFlight
        /\ ArrivesAndAnswers("GET /api/stock")
        /\ prev'.status = 200
        /\ ByKey(db.stock, prev.out[1].id_produk) # {} )
      => \E i \in DOMAIN prev'.out :
           /\ prev'.out[i].id_produk = prev.out[1].id_produk
           /\ prev'.out[i].nama_produk = prev.out[1].nama_produk ]_vars

\* C3: after a DELETE on a product answered 200 or 204, no stock row has the
\* deleted product's id_produk, and the GET /api/stock that follows returns no
\* row for that key, whether or not the product had a stock row.
C3_DeleteCascades ==
  [][ /\ ( prev'.op = "DELETE /api/products" /\ prev'.status \in {200, 204} )
         => /\ prev'.deleted # {}
            /\ \A p \in prev'.deleted : ByKey(db'.stock, p.id_produk) = {}
      /\ ( /\ prev.op = "DELETE /api/products"
           /\ prev.status \in {200, 204}
           /\ ArrivesAndAnswers("GET /api/stock")
           /\ prev'.status = 200 )
         => \A p \in prev.deleted : \A i \in DOMAIN prev'.out :
              prev'.out[i].id_produk # p.id_produk ]_vars

\* C3 witness: a product that had a stock row was deleted, and the stock list
\* was then fetched.
C3_Witness ==
  /\ prev.op = "DELETE /api/products"
  /\ prev.status \in {200, 204}
  /\ prev.cascaded # {}

\* The step is a POST /api/stock that carries id_produk k, for a body with the
\* name n (read by the strict variant only) and the quantity q.
PostStockArrives(k, n, q) ==
  \/ S_PostStockReq(k, n, q, FALSE)
  \/ U_PostStock_1Req(k, q, FALSE)

\* C4 as stated: a POST /api/stock whose id_produk matches no row of products
\* answers 404 (upsert) or 400 (strict), and the stock table is unchanged.
C4_AsStated ==
  [][ \A k \in Keys, n \in OptNames, q \in OptQtys :
        (PostStockArrives(k, n, q) /\ ByKey(db.products, k) = {})
        => /\ ArrivesAndAnswers("POST /api/stock")
           /\ prev'.status = (IF variant = "upsert" THEN 404 ELSE 400)
           /\ db'.stock = db.stock ]_vars

\* C4 amended: such a request is never answered 201 and leaves the stock table
\* unchanged; it answers 404 in the upsert variant when jumlah_stok is a number
\* (400 from the body check when it is not) and 400 in the strict variant when
\* nama_produk is given (500 when it is not: NOT NULL is checked first).
C4_NoStockForMissingProduct ==
  [][ \A k \in Keys, n \in OptNames, q \in OptQtys :
        (PostStockArrives(k, n, q) /\ ByKey(db.products, k) = {})
        => /\ ArrivesAndAnswers("POST /api/stock")
           /\ prev'.status = (IF variant = "upsert"
                              THEN (IF q = NullInt THEN 400 ELSE 404)
                              ELSE (IF n = NULL THEN 500 ELSE 400))
           /\ db'.stock = db.stock ]_vars

\* C4 witness: a POST /api/stock was refused for its product, the stock table
\* still empty.
C4_Witness ==
  /\ prev.op = "POST /api/stock"
  /\ prev.nsql = 1
  /\ prev.status \in {400, 404}
  /\ db.stock = {}

\* C5: upsert variant, requests one after another: a POST /api/stock for an
\* existing product that runs with no other request leaves exactly one stock row
\* for the key, holding the quantity stored before (0 with no row) plus the
\* quantity sent, answers 201 and returns that row.
C5_UpsertAccumulates ==
  [][ \A s \in Slots :
        (U_PostStock_3Req(s, FALSE) /\ req[s].alone)
        => LET k == req[s].body.id_produk
               q == req[s].body.jumlah_stok
           IN  /\ prev'.status = 201
               /\ \E row \in db'.stock :
                    /\ ByKey(db'.stock, k) = {row}
                    /\ row.jumlah_stok = CurQty(db, k) + q
                    /\ prev'.out = <<row>> ]_vars

\* C5 witness: product, then quantities 1 and 2 in either order, give 3.
C5_Witness ==
  /\ variant = "upsert"
  /\ nreq = 3
  /\ prev.op = "POST /api/stock"
  /\ prev.status = 201
  /\ prev.alone
  /\ Len(prev.out) = 1
  /\ prev.out[1].jumlah_stok = 3
  /\ Cardinality(db.stock) = 1

\* The answer is 404 and the three tables are as they were.
NotFoundNothingChanged(op) ==
  /\ ArrivesAndAnswers(op)
  /\ prev'.status = 404
  /\ db'.products = db.products
  /\ db'.stock = db.stock
  /\ db'.employees = db.employees

\* C6: a PUT or DELETE on a product, a stock row or an employee whose id or key
\* matches no row answers 404 and leaves the three tables unchanged.
C6_MissingTargetNotFound ==
  [][ /\ \A key \in Keys :
           /\ ByKey(db.products, key) = {}
              => /\ \A n \in OptNames, c \in OptKats :
                      S_PutProductsReq(key, n, c, FALSE)
                      => NotFoundNothingChanged("PUT /api/products")
                 /\ S_DeleteProductsReq(key, FALSE)
                      => NotFoundNothingChanged("DELETE /api/products")
           /\ ByKey(db.stock, key) = {}
              => /\ \A q \in OptQtys :
                      S_PutStockReq(key, q, FALSE)
                      => NotFoundNothingChanged("PUT /api/stock")
                 /\ S_DeleteStockReq(key, FALSE)
                      => NotFoundNothingChanged("DELETE /api/stock")
      /\ \A id \in Ids :
           /\ ById(db.products, id) = {}
              => /\ \A n \in OptNames, c \in OptKats :
                      U_PutProducts_1Req(id, n, c, FALSE)
                      => NotFoundNothingChanged("PUT /api/products")
                 /\ U_DeleteProductsReq(id, FALSE)
                      => NotFoundNothingChanged("DELETE /api/products")
           /\ ById(db.stock, id) = {}
              => /\ \A q \in OptQtys :
                      U_PutStockReq(id, q, FALSE)
                      => NotFoundNothingChanged("PUT /api/stock")
                 /\ U_DeleteStockReq(id, FALSE)
                      => NotFoundNothingChanged("DELETE /api/stock")
      /\ \A id \in EmpIds :
           ById(db.employees, id) = {}
           => /\ \A n \in OptEmpNames, p \in OptPosisi :
                   (S_PutEmployeesReq(id, n, p, FALSE) \/ U_PutEmployeesReq(id, n, p, FALSE))
                   => NotFoundNothingChanged("PUT /api/employees")
              /\ (S_DeleteEmployeesReq(id, FALSE) \/ U_DeleteEmployeesReq(id, FALSE))
                   => NotFoundNothingChanged("DELETE /api/employees") ]_vars

\* C6 witness: in the id-based variant a PUT on a missing product was answered
\* 404 while a stock row exists.
C6_Witness ==
  /\ variant = "upsert"
  /\ prev.op = "PUT /api/products"
  /\ prev.status = 404
  /\ db.stock # {}

\* The answer is 400 and no statement was issued.
RefusedBeforeSql(op) ==
  /\ ArrivesAndAnswers(op)
  /\ prev'.status = 400
  /\ prev'.nsql = 0

\* C7: a create request without a required field (POST /api/products without
\* id_produk or nama_produk, POST /api/stock without id_produk or quantity,
\* POST /api/employees without nama or posisi) answers 400 and issues no SQL
\* statement.
C7_RequiredFieldsBeforeSql ==
  [][ /\ \A k \in OptKeys, n \in OptNames, c \in OptKats, f \in BOOLEAN :
           ( /\ k = NULL \/ n = NULL
             /\ S_PostProductsReq(k, n, c, f) \/ U_PostProductsReq(k, n, c, f) )
           => RefusedBeforeSql("POST /api/products")
      /\ \A k \in OptKeys, n \in OptNames, q \in OptQtys, f \in BOOLEAN :
           ( /\ k = NULL \/ q = NullInt
             /\ S_PostStockReq(k, n, q, f) \/ U_PostStock_1Req(k, q, f) )
           => RefusedBeforeSql("POST /api/stock")
      /\ \A n \in OptEmpNames, p \in OptPosisi, f \in BOOLEAN :
           ( /\ n = NULL \/ p = NULL
             /\ S_PostEmployeesReq(n, p, f) \/ U_PostEmployeesReq(n, p, f) )
           => RefusedBeforeSql("POST /api/employees") ]_vars

\* C8: every stock row's id_produk is the id_produk of a products row.
C8_NoOrphanStock ==
  \A s \in db.stock : \E p \in db.products : p.id_produk = s.id_produk

\* C9: the products table never holds two rows with one id_produk, and after a
\* POST /api/products answered 201 the GET /api/products that follows returns
\* the created product exactly once.
C9_ProductListedOnce ==
  [][ /\ \A p, q \in db'.products : p.id_produk = q.id_produk => p = q
      /\ ( /\ prev.op = "POST /api/products"
           /\ prev.status = 201
           /\ ArrivesAndAnswers("GET /api/products")
           /\ prev'.status = 200 )
         => Cardinality({i \in DOMAIN prev'.out :
                           prev'.out[i].id_produk = prev.out[1].id_produk}) = 1 ]_vars

\* C9 witness: one product created, then listed.
C9_Witness ==
  /\ nreq = 2
  /\ prev.op = "GET /api/products"
  /\ prev.status = 200
  /\ Len(prev.out) = 1

-----------------------------------------------------------------------------
(* Liveness.  Each pool.query promise settles and the event loop runs the  *)
(* continuation of every handler that waits for one.                       *)

HandlerStep(s) ==
  \E f \in BOOLEAN :
    \/ S_GetDashboard_2Req(s, f)
    \/ S_GetDashboard_3Req(s, f)
    \/ U_PutProducts_2Req(s, f)
    \/ U_PostStock_2Req(s, f)
    \/ U_PostStock_3Req(s, f)

SpecFair == Spec /\ \A s \in Slots : WF_vars(HandlerStep(s))

Statuses == {200, 201, 204, 400, 404, 409, 500}

\* C10: every request gets exactly one response.  An answered request has sent
\* one response with an HTTP status and a request in flight has sent none; a
\* request leaves flight only by being answered; a statement that fails in a
\* handler in flight is answered 500 in that step; and every request in flight
\* is eventually answered.
C10_ExactlyOneResponse ==
  /\ [] ( /\ prev.op # "none" => (prev.nresp = 1 /\ prev.status \in Statuses)
          /\ \A s \in Slots : Busy(s) => (req[s].nresp = 0 /\ req[s].status = 0) )
  /\ [][ \A s \in Slots :
           /\ (Busy(s) /\ req'[s] = Idle)
              => (prev'.op = req[s].op /\ prev'.nsql = req[s].nsql + 1)
           /\ ( \/ S_GetDashboard_2Req(s, TRUE) \/ S_GetDashboard_3Req(s, TRUE)
                \/ U_PutProducts_2Req(s, TRUE)
                \/ U_PostStock_2Req(s, TRUE) \/ U_PostStock_3Req(s, TRUE) )
              => (req'[s] = Idle /\ prev'.status = 500) ]_vars
  /\ \A s \in Slots : Busy(s) ~> ~ Busy(s)

\* C10 witness: the second statement of a rename failed and was answered 500.
C10_Witness ==
  /\ prev.op = "PUT /api/products"
  /\ prev.nsql = 2
  /\ prev.status = 500

-----------------------------------------------------------------------------
(* Concurrent renames and upserts of one product, in the id-based variant  *)
(* (src/inventory_backend.js).  SpecRace keeps, of Spec, the requests the   *)
(* races are made of: the product RaceKey is created, renamed by            *)
(* PUT /api/products/:id and stocked by POST /api/stock, with every         *)
(* statement answered by the database (f = FALSE).  Every behaviour of      *)
(* SpecRace is a behaviour of Spec.                                         *)

RaceKey == "P1"

\* POST /api/products for the product
R_PostProducts == \E n \in Names : U_PostProductsReq(RaceKey, n, NULL, FALSE)

\* PUT /api/products/:id, first statement (UPDATE products)
R_PutProducts_1 == \E id \in Ids, n \in Names : U_PutProducts_1Req(id, n, NULL, FALSE)

\* PUT /api/products/:id, second statement (UPDATE stock)
R_PutProducts_2 == \E s \in Slots : U_PutProducts_2Req(s, FALSE)

\* POST /api/stock, first statement (SELECT the product)
R_PostStock_1 == \E q \in Qtys : U_PostStock_1Req(RaceKey, q, FALSE)

\* POST /api/stock, second statement (SELECT the stock row)
R_PostStock_2 == \E s \in Slots : U_PostStock_2Req(s, FALSE)

\* POST /api/stock, third statement (UPDATE the sum, or INSERT)
R_PostStock_3 == \E s \in Slots : U_PostStock_3Req(s, FALSE)

InitRace == Init /\ variant = "upsert"

NextRace ==
  \/ R_PostProducts
  \/ R_PutProducts_1 \/ R_PutProducts_2
  \/ R_PostStock_1 \/ R_PostStock_2 \/ R_PostStock_3

SpecRace == InitRace /\ [][NextRace]_vars

\* C11: id-based variant, renames of one product and upserts for it in any
\* interleaving: whenever no request is in flight, the name stored in the
\* product's stock row is the product's name.
C11_StockNameInSyncAtQuiescence ==
  NoneInFlight
  => \A s \in db.stock : \A p \in ByKey(db.products, s.id_produk) :
       s.nama_produk = p.nama_produk

\* C12: upsert variant, two POST /api/stock for the same existing product in
\* any interleaving: each write of a POST /api/stock answers 201 and leaves one
\* stock row for the key holding the quantity stored just before the write
\* (0 with no row) plus the quantity sent.  In SpecRace nothing else writes the
\* quantity, so this is the claim's total: the initial quantity plus a plus b,
\* with neither request failing on the unique constraint.
C12_ConcurrentUpsertsAddUp ==
  [][ \A s \in Slots :
        U_PostStock_3Req(s, FALSE)
        => LET k == req[s].body.id_produk
               q == req[s].body.jumlah_stok
           IN  /\ prev'.status = 201
               /\ \E row \in db'.stock :
                    /\ ByKey(db'.stock, k) = {row}
                    /\ row.jumlah_stok = CurQty(db, k) + q ]_vars

====
